---- MODULE Spec2Model ----
(***************************************************************************)
(* Universal EDA Explorer (src/app.py): one Streamlit script that loads a  *)
(* CSV table, builds the sidebar filters, filters the table, and selects   *)
(* a chart from the relationship type and the selected columns.  The       *)
(* script is re-run top to bottom on every interaction; the model follows  *)
(* one run through the script's positions (pc).                            *)
(***************************************************************************)
EXTENDS Integers, Sequences, FiniteSets, TLC

(***************************************************************************)
(* Bounds of the model.                                                    *)
(***************************************************************************)
\* rows of the enumerated tables handed to the filter engine
MaxRowsF == 2
\* rows of the sample tables that go through the whole script
MaxRows == 3
\* the large tables have FilterLimit - Margin .. FilterLimit + Margin rows
Margin == 1

\* src/app.py:42 and :83, the distinct-value limit
FilterLimit == 100

(***************************************************************************)
(* Text.  A Python str is a sequence of one-character strings.             *)
(***************************************************************************)
Digits == <<"0", "1", "2", "3", "4", "5", "6", "7", "8", "9">>

DigitSet == {Digits[i] : i \in 1..10}

DigitVal(ch) == (CHOOSE i \in 1..10 : Digits[i] = ch) - 1

\* code-point order of the characters that occur
Alphabet == <<".", "0", "1", "2", "3", "4", "5", "6", "7", "8", "9",
              "A", "F", "T", "a", "e", "k", "l", "r", "s", "u", "x", "y">>

CharRank(ch) == CHOOSE i \in 1..Len(Alphabet) : Alphabet[i] = ch

RECURSIVE StrLess(_, _)
StrLess(s, t) ==
    IF Len(t) = 0 THEN FALSE
    ELSE IF Len(s) = 0 THEN TRUE
    ELSE IF s[1] # t[1] THEN CharRank(s[1]) < CharRank(t[1])
    ELSE StrLess(Tail(s), Tail(t))

RECURSIVE IntStr(_)
IntStr(n) ==
    IF n < 10 THEN <<Digits[n + 1]>>
    ELSE IntStr(n \div 10) \o <<Digits[(n % 10) + 1]>>

IsDigits(s) == Len(s) > 0 /\ \A i \in 1..Len(s) : s[i] \in DigitSet

RECURSIVE ParseNat(_)
ParseNat(s) ==
    IF Len(s) = 0 THEN 0
    ELSE ParseNat(SubSeq(s, 1, Len(s) - 1)) * 10 + DigitVal(s[Len(s)])

RECURSIVE Pow10(_)
Pow10(k) == IF k = 0 THEN 1 ELSE 10 * Pow10(k - 1)

All == <<"A", "l", "l">>
TrueStr == <<"T", "r", "u", "e">>
FalseStr == <<"F", "a", "l", "s", "e">>

(***************************************************************************)
(* Cell values of a table.  kind is the Python type of the value; a number *)
(* is num/den; NaN is the missing value.                                   *)
(***************************************************************************)
IntV(n) == [kind |-> "int", num |-> n, den |-> 1, txt |-> <<>>]
FloatV(n, d) == [kind |-> "float", num |-> n, den |-> d, txt |-> <<>>]
BoolV(b) == [kind |-> "bool", num |-> IF b THEN 1 ELSE 0, den |-> 1, txt |-> <<>>]
StrV(s) == [kind |-> "str", num |-> 0, den |-> 1, txt |-> s]
NaN == [kind |-> "nan", num |-> 0, den |-> 1, txt |-> <<>>]

IsNumber(v) == v.kind \in {"int", "float", "bool"}

\* str(v) of src/app.py:43 for a value of a column (floats of the tables are whole)
PyStr(v) ==
    CASE v.kind = "int" -> IntStr(v.num)
      [] v.kind = "float" -> IntStr(v.num \div v.den) \o <<".", "0">>
      [] v.kind = "bool" -> IF v.num = 1 THEN TrueStr ELSE FalseStr
      [] v.kind = "str" -> v.txt
      [] OTHER -> <<"n", "a", "n">>

\* pd.to_numeric(selected) of src/app.py:53 on a str: an int, a float, or ValueError
to_numeric(s) ==
    LET dots == {i \in 1..Len(s) : s[i] = "."}
    IN  IF IsDigits(s)
        THEN [ok |-> TRUE, val |-> IntV(ParseNat(s))]
        ELSE IF Cardinality(dots) = 1
        THEN LET p == CHOOSE i \in dots : TRUE
                 whole == SubSeq(s, 1, p - 1)
                 frac == SubSeq(s, p + 1, Len(s))
             IN  IF IsDigits(whole) /\ IsDigits(frac)
                 THEN [ok |-> TRUE,
                       val |-> FloatV(ParseNat(whole \o frac), Pow10(Len(frac)))]
                 ELSE [ok |-> FALSE, val |-> NaN]
        ELSE [ok |-> FALSE, val |-> NaN]

\* pd.api.types.is_numeric_dtype: bool counts as numeric
is_numeric_dtype(dtype) == dtype \in {"int64", "float64", "bool"}

\* elementwise == of src/app.py:56 between a cell and the selected value
PdEq(v, sel) ==
    IF v.kind = "nan" \/ sel.kind = "nan" THEN FALSE
    ELSE IF IsNumber(v) /\ IsNumber(sel) THEN v.num * sel.den = sel.num * v.den
    ELSE IF v.kind = "str" /\ sel.kind = "str" THEN v.txt = sel.txt
    ELSE FALSE

\* order used by sorted() on the values of one column
CellLess(v, w) ==
    IF v.kind = "str" /\ w.kind = "str" THEN StrLess(v.txt, w.txt)
    ELSE v.num * w.den < w.num * v.den

\* sorted(): the values of the set in ascending order
SortCells(S) ==
    LET ranked == {<<Cardinality({w \in S : CellLess(w, v)}), v>> : v \in S}
    IN  [i \in 1..Cardinality(S) |-> (CHOOSE p \in ranked : p[1] = i - 1)[2]]

Range(s) == {s[i] : i \in 1..Len(s)}

(***************************************************************************)
(* Tables: columns (df.columns), dtype of each column, rows in order.      *)
(***************************************************************************)
MkTable(cols, dt, rs) == [columns |-> cols, dtype |-> dt, rows |-> rs]

Column(T, col) == [i \in 1..Len(T.rows) |-> T.rows[i][col]]

\* df[col].dropna().unique()
DropnaUnique(T, col) == {v \in Range(Column(T, col)) : v.kind # "nan"}

\* src/app.py:41
unique_vals(T, col) == SortCells(DropnaUnique(T, col))

\* df[col].nunique()
nunique(T, col) == Cardinality(DropnaUnique(T, col))

(***************************************************************************)
(* Sidebar filters and the filter loop.                                    *)
(***************************************************************************)
\* the limit is taken inclusive
FilterOffered_Inclusive(T, col) ==
    LET n == Len(unique_vals(T, col)) IN 1 < n /\ n <= FilterLimit

\* src/app.py:42, the column gets a selectbox
FilterOffered(T, col) ==
    LET n == Len(unique_vals(T, col)) IN 1 < n /\ n < FilterLimit

\* src/app.py:43, options of the column's selectbox
FilterOptions(T, col) ==
    LET u == unique_vals(T, col)
    IN  <<All>> \o [i \in 1..Len(u) |-> PyStr(u[i])]

\* the dicts that the loop of src/app.py:40-44 can build from the i-th column on
RECURSIVE SelectionsFrom(_, _)
SelectionsFrom(T, i) ==
    IF i > Len(T.columns) THEN {<<>>}
    ELSE LET col == T.columns[i]
             rest == SelectionsFrom(T, i + 1)
         IN  IF FilterOffered(T, col)
             THEN LET options == Range(FilterOptions(T, col))
                  IN  {(col :> o) @@ fv : o \in options, fv \in rest}
             ELSE rest

FilterSelections(T) == SelectionsFrom(T, 1)

\* src/app.py:50-55, the value the column is compared with
Coerce(dtype, selected) ==
    IF is_numeric_dtype(dtype) /\ to_numeric(selected).ok
    THEN to_numeric(selected).val
    ELSE StrV(selected)

\* the mask is applied one row late: the first matching row is lost
MaskRows_SkipFirst(rows, col, sel) ==
    LET kept == SelectSeq(rows, LAMBDA r : PdEq(r[col], sel))
    IN  IF Len(kept) = 0 THEN kept ELSE Tail(kept)

\* src/app.py:56, boolean-mask indexing keeps the matching rows in order
MaskRows(rows, col, sel) == SelectSeq(rows, LAMBDA r : PdEq(r[col], sel))

\* src/app.py:48-56 from the i-th column on (dict order is column order)
RECURSIVE FilterFrom(_, _, _, _)
FilterFrom(T, fv, i, rows) ==
    IF i > Len(T.columns) THEN rows
    ELSE LET col == T.columns[i]
         IN  IF col \in DOMAIN fv /\ fv[col] # All
             THEN FilterFrom(T, fv, i + 1, MaskRows(rows, col, Coerce(T.dtype[col], fv[col])))
             ELSE FilterFrom(T, fv, i + 1, rows)

\* src/app.py:47-56
FilterLoop(T, fv) == MkTable(T.columns, T.dtype, FilterFrom(T, fv, 1, T.rows))

(***************************************************************************)
(* Column choices for the graph.                                           *)
(***************************************************************************)
RelTypes == {"Auto", "One-to-One", "One-to-Many", "Many-to-Many"}
AggFuncs == {"count", "sum", "mean"}
SelectNone == "Select..."
ColorNone == "None"

\* src/app.py:82
numeric_columns(T) == SelectSeq(T.columns, LAMBDA c : is_numeric_dtype(T.dtype[c]))

\* the distinct-value limit is forgotten
categorical_columns_NoLimit(T) ==
    SelectSeq(T.columns, LAMBDA c : ~is_numeric_dtype(T.dtype[c]))

\* src/app.py:83
categorical_columns(T) ==
    SelectSeq(T.columns, LAMBDA c : ~is_numeric_dtype(T.dtype[c]) /\ nunique(T, c) < FilterLimit)

\* src/app.py:87-90
XOptions(T, rel) ==
    IF rel = "Many-to-Many" THEN <<SelectNone>> \o categorical_columns(T)
    ELSE <<SelectNone>> \o T.columns

\* Auto offers every column for Y
YOptions_AutoAll(T, rel) ==
    IF rel = "Many-to-Many" THEN <<SelectNone>> \o categorical_columns(T)
    ELSE IF rel \in {"One-to-One", "One-to-Many"} THEN <<SelectNone>> \o numeric_columns(T)
    ELSE <<SelectNone>> \o T.columns

\* src/app.py:93-100
YOptions(T, rel) ==
    IF rel = "Many-to-Many" THEN <<SelectNone>> \o categorical_columns(T)
    ELSE IF rel \in {"Auto", "One-to-One"} THEN <<SelectNone>> \o numeric_columns(T)
    ELSE IF rel = "One-to-Many" THEN <<SelectNone>> \o numeric_columns(T)
    ELSE <<SelectNone>> \o T.columns

\* Auto never warns
WarningFor_AutoSilent(T, rel, x, y) ==
    LET xn == is_numeric_dtype(T.dtype[x])
        yn == is_numeric_dtype(T.dtype[y])
    IN  IF rel = "One-to-One"
        THEN IF ~(xn /\ yn) THEN "scatter_numeric" ELSE "None"
        ELSE IF rel = "One-to-Many"
        THEN IF ~yn THEN "bar_y_numeric" ELSE "None"
        ELSE IF rel = "Many-to-Many"
        THEN IF xn \/ yn THEN "heatmap_categorical" ELSE "None"
        ELSE "None"

\* src/app.py:121-130, None is the empty text
WarningFor(T, rel, x, y) ==
    LET xn == is_numeric_dtype(T.dtype[x])
        yn == is_numeric_dtype(T.dtype[y])
    IN  IF rel \in {"Auto", "One-to-One"}
        THEN IF ~(xn /\ yn) THEN "scatter_numeric" ELSE "None"
        ELSE IF rel = "One-to-Many"
        THEN IF ~yn THEN "bar_y_numeric" ELSE "None"
        ELSE IF rel = "Many-to-Many"
        THEN IF xn \/ yn THEN "heatmap_categorical" ELSE "None"
        ELSE "None"

(***************************************************************************)
(* Aggregation and chart calls.                                            *)
(***************************************************************************)
RECURSIVE SumNum(_)
SumNum(cells) == IF Len(cells) = 0 THEN 0 ELSE Head(cells).num + SumNum(Tail(cells))

\* Series.agg("sum" | "mean") over the cells of one group; missing values are skipped
Agg(cells, f) ==
    LET vals == SelectSeq(cells, IsNumber)
    IN  IF f = "sum" THEN IntV(SumNum(vals))
        ELSE IF Len(vals) = 0 THEN NaN
        ELSE FloatV(SumNum(vals), Len(vals))

\* the group keys of groupby / pivot_table: sorted, missing keys dropped
GroupKeys(T, col) == unique_vals(T, col)

\* src/app.py:159 and :183, filtered_df.groupby(x)[y].agg(f).reset_index() for x # y
Grouped(T, x, y, f) ==
    LET keys == GroupKeys(T, x)
        members(k) == SelectSeq(T.rows, LAMBDA r : r[x] = k)
        ycells(k) == [i \in 1..Len(members(k)) |-> members(k)[i][y]]
    IN  MkTable(<<x, y>>,
                (x :> T.dtype[x]) @@ (y :> IF f = "mean" THEN "float64" ELSE T.dtype[y]),
                [i \in 1..Len(keys) |-> (x :> keys[i]) @@ (y :> Agg(ycells(keys[i]), f))])

\* src/app.py:192 and :194, the grid of pd.pivot_table with fill_value=0
Pivot(T, x, y, f) ==
    LET xkeys == GroupKeys(T, x)
        ykeys == GroupKeys(T, y)
        vcol == T.columns[1]
        members(kx, ky) == SelectSeq(T.rows, LAMBDA r : r[x] = kx /\ r[y] = ky)
        vcells(kx, ky) == [i \in 1..Len(members(kx, ky)) |-> members(kx, ky)[i][vcol]]
        cell(kx, ky) ==
            IF f = "count" THEN IntV(Len(members(kx, ky)))
            ELSE IF Len(SelectSeq(vcells(kx, ky), IsNumber)) = 0 THEN IntV(0)
            ELSE Agg(vcells(kx, ky), f)
    IN  [i \in 1..Len(xkeys) |-> [j \in 1..Len(ykeys) |-> cell(xkeys[i], ykeys[j])]]

NoFig == [family |-> "None", data |-> <<>>, x |-> "None", y |-> "None", color |-> "None"]

Fig(family, data, x, y, color) ==
    [family |-> family, data |-> data, x |-> x, y |-> y, color |-> color]

Returned(f) == [raised |-> FALSE, fig |-> f, warned |-> FALSE]
Raised == [raised |-> TRUE, fig |-> NoFig, warned |-> FALSE]

\* a plotly express call: every column it names must be a column of its data frame
PxCall(family, T, x, y, color) ==
    IF \A c \in {x, y, color} \ {"None"} : c \in Range(T.columns)
    THEN Returned(Fig(family, T.rows, x, y, color))
    ELSE Raised

\* src/app.py:153-164 and :177-188; reset_index cannot insert x next to a result named x
BarCall(fdf, x, y, color, f) ==
    IF f = "count" THEN PxCall("bar", fdf, x, "None", color)
    ELSE IF x = y THEN Raised
    ELSE PxCall("bar", Grouped(fdf, x, y, f), x, y, color)

\* src/app.py:190-199.  With sum or mean the grid aggregates the first column of the
\* table; the mean of a text column that is not X or Y raises in pandas 2 and is
\* dropped from the grid by older versions, so that call either raises or returns.
HeatmapCall(T, fdf, x, y, f) ==
    IF is_numeric_dtype(T.dtype[x]) \/ is_numeric_dtype(T.dtype[y])
    THEN {[raised |-> FALSE, fig |-> NoFig, warned |-> TRUE]}
    ELSE {Returned(Fig("heatmap", Pivot(fdf, x, y, f), x, y, "None"))}
         \cup (IF /\ f = "mean"
                  /\ ~is_numeric_dtype(T.dtype[T.columns[1]])
                  /\ T.columns[1] \notin {x, y}
               THEN {Raised} ELSE {})

\* Auto tests "Y is numeric" before "both are numeric"
GraphOutcomes_BarFirst(T, fdf, rel, x, y, color, f) ==
    LET xn == is_numeric_dtype(T.dtype[x])
        yn == is_numeric_dtype(T.dtype[y])
    IN  IF rel = "Auto"
        THEN IF yn THEN {BarCall(fdf, x, y, color, f)}
             ELSE IF xn /\ yn THEN {PxCall("scatter", fdf, x, y, color)}
             ELSE {PxCall("histogram", fdf, x, "None", color)}
        ELSE IF rel = "One-to-One" THEN {PxCall("scatter", fdf, x, y, color)}
        ELSE IF rel = "One-to-Many" THEN {BarCall(fdf, x, y, color, f)}
        ELSE IF rel = "Many-to-Many" THEN HeatmapCall(T, fdf, x, y, f)
        ELSE {Returned(NoFig)}

\* src/app.py:144-199, the outcomes of the graph selection
GraphOutcomes(T, fdf, rel, x, y, color, f) ==
    LET xn == is_numeric_dtype(T.dtype[x])
        yn == is_numeric_dtype(T.dtype[y])
    IN  IF rel = "Auto"
        THEN IF xn /\ yn THEN {PxCall("scatter", fdf, x, y, color)}
             ELSE IF yn THEN {BarCall(fdf, x, y, color, f)}
             ELSE {PxCall("histogram", fdf, x, "None", color)}
        ELSE IF rel = "One-to-One" THEN {PxCall("scatter", fdf, x, y, color)}
        ELSE IF rel = "One-to-Many" THEN {BarCall(fdf, x, y, color, f)}
        ELSE IF rel = "Many-to-Many" THEN HeatmapCall(T, fdf, x, y, f)
        ELSE {Returned(NoFig)}

(***************************************************************************)
(* The tables that are loaded.                                             *)
(***************************************************************************)
\* values read_csv gives a column of the dtype
CellsOf(dtype) ==
    CASE dtype = "int64" -> {IntV(1), IntV(2)}
      [] dtype = "float64" -> {FloatV(1, 1), FloatV(2, 1), NaN}
      [] dtype = "bool" -> {BoolV(TRUE), BoolV(FALSE)}
      [] OTHER -> {StrV(<<"x">>), StrV(<<"y">>), NaN}

\* a column of missing values only is read as float64, never as object
ColumnOk(dtype, cells) == dtype = "object" => \E i \in DOMAIN cells : cells[i].kind = "str"

FilterColumns == <<"a", "b">>

\* every two-column table of up to MaxRowsF rows
SmallTables ==
    UNION {
      UNION {
        {MkTable(FilterColumns, dt, [i \in 1..n |-> ("a" :> ca[i]) @@ ("b" :> cb[i])]) :
           <<ca, cb>> \in {p \in [1..n -> CellsOf(dt["a"])] \X [1..n -> CellsOf(dt["b"])] :
                              ColumnOk(dt["a"], p[1]) /\ ColumnOk(dt["b"], p[2])}}
        : dt \in [{"a", "b"} -> {"int64", "float64", "bool", "object"}]}
      : n \in 1..MaxRowsF}

\* tables around the distinct-value limit: a has one value per row, b alternates
LargeTable(n, dta) ==
    MkTable(FilterColumns, ("a" :> dta) @@ ("b" :> "int64"),
            [i \in 1..n |-> ("a" :> (IF dta = "int64" THEN IntV(i) ELSE StrV(<<"k">> \o IntStr(i))))
                            @@ ("b" :> IntV(i % 2))])

LargeTables ==
    {LargeTable(n, dta) : n \in (FilterLimit - Margin)..(FilterLimit + Margin),
                          dta \in {"int64", "object"}}

FilterTables == SmallTables \cup LargeTables

SampleColumns == <<"a", "b", "c">>

SampleCell(dtype, bit) ==
    IF dtype = "int64" THEN IntV(1 + bit) ELSE StrV(IF bit = 0 THEN <<"x">> ELSE <<"y">>)

\* sample data of n rows: a alternates, b changes every second row, c is constant
SampleTable(dt, n) ==
    MkTable(SampleColumns, dt,
            [i \in 1..n |-> ("a" :> SampleCell(dt["a"], i % 2))
                            @@ ("b" :> SampleCell(dt["b"], (i \div 2) % 2))
                            @@ ("c" :> SampleCell(dt["c"], 0))])

\* a table of FilterLimit rows whose text column c has one value per row
LargeSample ==
    MkTable(SampleColumns, ("a" :> "object") @@ ("b" :> "int64") @@ ("c" :> "object"),
            [i \in 1..FilterLimit |-> ("a" :> SampleCell("object", i % 2))
                                      @@ ("b" :> SampleCell("int64", (i \div 2) % 2))
                                      @@ ("c" :> StrV(<<"k">> \o IntStr(i)))])

Tables ==
    {SampleTable(dt, n) : dt \in [{"a", "b", "c"} -> {"int64", "object"}], n \in 1..MaxRows}
    \cup {LargeSample}

NoTable == MkTable(<<>>, <<>>, <<>>)

(***************************************************************************)
(* State of one run of the script.                                         *)
(***************************************************************************)
VARIABLES pc, df, filter_values, filtered_df, relationship_type, x_options, y_options,
          selected_x, selected_y, selected_col, warning, color_by, agg_func, fig, out

vars == <<pc, df, filter_values, filtered_df, relationship_type, x_options, y_options,
          selected_x, selected_y, selected_col, warning, color_by, agg_func, fig, out>>

filterVars == <<filter_values, filtered_df>>
graphVars == <<relationship_type, x_options, y_options, selected_x, selected_y, selected_col>>
chartVars == <<warning, color_by, agg_func, fig>>

Fresh ==
    /\ filter_values = <<>>
    /\ filtered_df = NoTable
    /\ relationship_type = "Auto"
    /\ x_options = <<>>
    /\ y_options = <<>>
    /\ selected_x = SelectNone
    /\ selected_y = SelectNone
    /\ selected_col = "None"
    /\ warning = "None"
    /\ color_by = ColorNone
    /\ agg_func = "count"
    /\ fig = NoFig
    /\ out = <<>>

\* the script starts, nothing is uploaded or drawn yet
Init == pc = "upload" /\ df = NoTable /\ Fresh

\* the filter engine alone: a table is loaded, the sidebar is about to be built
InitF == pc = "sidebar" /\ df \in FilterTables /\ Fresh

\* src/app.py:22-23, 29-31
NoFile ==
    /\ pc = "upload"
    /\ out' = Append(out, "info_upload")
    /\ pc' = "stopped"
    /\ UNCHANGED <<df, filterVars, graphVars, chartVars>>

\* src/app.py:14-19, 24-28, read_csv raised
LoadFail ==
    /\ pc = "upload"
    /\ out' = Append(out, "error_load")
    /\ pc' = "stopped"
    /\ UNCHANGED <<df, filterVars, graphVars, chartVars>>

\* src/app.py:14-16, 24-26, 33-35
LoadCsv ==
    /\ pc = "upload"
    /\ \E t \in Tables : df' = t
    /\ out' = Append(out, "success")
    /\ pc' = "sidebar"
    /\ UNCHANGED <<filterVars, graphVars, chartVars>>

\* src/app.py:37-44
SidebarFilters ==
    /\ pc = "sidebar"
    /\ filter_values' \in FilterSelections(df)
    /\ pc' = "filter"
    /\ UNCHANGED <<df, filtered_df, graphVars, chartVars, out>>

\* src/app.py:46-56
FilterData ==
    /\ pc = "filter"
    /\ filtered_df' = FilterLoop(df, filter_values)
    /\ pc' = "check"
    /\ UNCHANGED <<df, filter_values, graphVars, chartVars, out>>

\* the warning is shown but the script goes on
EmptyCheck_NoStop ==
    /\ pc = "check"
    /\ IF Len(filtered_df.rows) = 0 \/ Len(filtered_df.columns) = 0
       THEN out' = Append(out, "warn_empty") /\ pc' = "select"
       ELSE out' = out /\ pc' = "select"
    /\ UNCHANGED <<df, filterVars, graphVars, chartVars>>

\* src/app.py:58-61
EmptyCheck ==
    /\ pc = "check"
    /\ IF Len(filtered_df.rows) = 0 \/ Len(filtered_df.columns) = 0
       THEN out' = Append(out, "warn_empty") /\ pc' = "stopped"
       ELSE out' = out /\ pc' = "select"
    /\ UNCHANGED <<df, filterVars, graphVars, chartVars>>

\* src/app.py:75-111: relationship type, X, Y and summary column, summary statistics
GraphInputs ==
    /\ pc = "select"
    /\ \E rel \in RelTypes :
         /\ relationship_type' = rel
         /\ x_options' = XOptions(df, rel)
         /\ y_options' = YOptions(df, rel)
    /\ selected_x' \in Range(x_options')
    /\ selected_y' \in Range(y_options')
    /\ selected_col' \in Range(df.columns)
    /\ out' = Append(out, IF is_numeric_dtype(df.dtype[selected_col'])
                          THEN "stats_describe" ELSE "stats_value_counts")
    /\ pc' = "validate"
    /\ UNCHANGED <<df, filterVars, chartVars>>

\* src/app.py:113-141: both columns selected? the warning, the advanced options
Validate ==
    /\ pc = "validate"
    /\ IF selected_x = SelectNone \/ selected_y = SelectNone
       THEN /\ out' = Append(out, "info_select")
            /\ pc' = "preview"
            /\ UNCHANGED <<warning, color_by, agg_func>>
       ELSE /\ warning' = WarningFor(df, relationship_type, selected_x, selected_y)
            /\ out' = IF warning' # "None" THEN Append(out, "warn_validation") ELSE out
            /\ color_by' \in {ColorNone} \cup Range(df.columns)
            /\ agg_func' \in AggFuncs
            /\ pc' = "graph"
    /\ UNCHANGED <<df, filterVars, graphVars, fig>>

\* src/app.py:143-210: the chart is chosen and drawn, or the chart call raises
GraphSelection ==
    /\ pc = "graph"
    /\ \E o \in GraphOutcomes(df, filtered_df, relationship_type, selected_x, selected_y,
                              color_by, agg_func) :
         /\ fig' = o.fig
         /\ IF o.raised
            THEN out' = Append(out, "exception") /\ pc' = "error"
            ELSE /\ pc' = "preview"
                 /\ out' = IF o.warned THEN Append(out, "warn_heatmap")
                           ELSE IF o.fig.family # "None"
                           THEN out \o <<"chart", "download_plot">>
                           ELSE out
    /\ UNCHANGED <<df, filterVars, graphVars, warning, color_by, agg_func>>

\* src/app.py:212-224
PreviewDownload ==
    /\ pc = "preview"
    /\ out' = out \o <<"preview", "download_csv">>
    /\ pc' = "done"
    /\ UNCHANGED <<df, filterVars, graphVars, chartVars>>

\* the next interaction runs the script again from the top
Rerun ==
    /\ pc \in {"stopped", "done", "error"}
    /\ pc' = "upload"
    /\ df' = NoTable
    /\ filter_values' = <<>>
    /\ filtered_df' = NoTable
    /\ relationship_type' = "Auto"
    /\ x_options' = <<>>
    /\ y_options' = <<>>
    /\ selected_x' = SelectNone
    /\ selected_y' = SelectNone
    /\ selected_col' = "None"
    /\ warning' = "None"
    /\ color_by' = ColorNone
    /\ agg_func' = "count"
    /\ fig' = NoFig
    /\ out' = <<>>

Next ==
    \/ NoFile
    \/ LoadFail
    \/ LoadCsv
    \/ SidebarFilters
    \/ FilterData
    \/ EmptyCheck
    \/ GraphInputs
    \/ Validate
    \/ GraphSelection
    \/ PreviewDownload
    \/ Rerun

Spec == Init /\ [][Next]_vars

NextF ==
    \/ SidebarFilters
    \/ FilterData
    \/ EmptyCheck

FilterSpec == InitF /\ [][NextF]_vars

(***************************************************************************)
(* Properties of the filter engine (FilterSpec).                           *)
(***************************************************************************)
Filtered == pc \in {"check", "select", "stopped"}

\* the row carries the selected literal in every constrained column
RowMatches(r, fv) == \A c \in DOMAIN fv : fv[c] # All => PyStr(r[c]) = fv[c]

\* C1: the filtered table holds exactly the rows of the loaded table whose value is
\* the selected literal in every column whose selection is not "All", in the
\* original order, with the same columns and cells.
C1_FilterExact ==
    Filtered =>
        /\ filtered_df.columns = df.columns
        /\ filtered_df.dtype = df.dtype
        /\ filtered_df.rows = SelectSeq(df.rows, LAMBDA r : RowMatches(r, filter_values))

\* C2: filtering is idempotent, applying the same selection to the filtered table
\* gives the filtered table again.
C2_Idempotent == Filtered => FilterLoop(filtered_df, filter_values) = filtered_df

C2_Witness ==
    /\ pc = "check"
    /\ 0 < Len(filtered_df.rows)
    /\ Len(filtered_df.rows) < Len(df.rows)

Distinct(T, col) == {T.rows[i][col] : i \in 1..Len(T.rows)} \ {NaN}

\* C10: a column gets a filter iff it has more than 1 and fewer than 100 distinct
\* non-missing values, whatever its dtype; rows that agree on the columns with a
\* filter are kept together or dropped together.
C10_Offered ==
    pc # "sidebar" =>
        /\ \A c \in Range(df.columns) :
              c \in DOMAIN filter_values <=>
                  (1 < Cardinality(Distinct(df, c)) /\ Cardinality(Distinct(df, c)) < 100)
        /\ Filtered =>
              LET kept == Range(filtered_df.rows)
              IN  \A i, j \in 1..Len(df.rows) :
                     (i < j /\ \A c \in DOMAIN filter_values : df.rows[i][c] = df.rows[j][c])
                        => (df.rows[i] \in kept <=> df.rows[j] \in kept)

C10_Witness ==
    /\ pc = "check"
    /\ \E c \in DOMAIN filter_values :
          /\ Cardinality(Distinct(df, c)) = 99
          /\ filter_values[c] # All
          /\ Len(filtered_df.rows) = 1

(***************************************************************************)
(* Properties of a run of the script (Spec).                               *)
(***************************************************************************)
Has(e) == \E i \in 1..Len(out) : out[i] = e
Count(e) == Cardinality({i \in 1..Len(out) : out[i] = e})

BothSelected == selected_x # SelectNone /\ selected_y # SelectNone

\* the graph selection of a request with X and Y has run
GraphDone == pc \in {"preview", "done", "error"} /\ BothSelected

XNumeric == is_numeric_dtype(df.dtype[selected_x])
YNumeric == is_numeric_dtype(df.dtype[selected_y])

AfterCheck == {"select", "validate", "graph", "preview", "done", "error"}

\* C3: when the filters leave no row the run warns and stops, with no statistics,
\* chart, chart warning or download; every step after the check has rows.
C3_EmptyHalts ==
    /\ Has("warn_empty") =>
          /\ pc = "stopped"
          /\ \A e \in {"stats_describe", "stats_value_counts", "info_select", "warn_validation",
                       "warn_heatmap", "chart", "download_plot", "preview", "download_csv",
                       "exception"} : ~Has(e)
    /\ pc \in AfterCheck => Len(filtered_df.rows) > 0
    /\ (pc = "stopped" /\ Has("success")) => (Has("warn_empty") /\ Len(filtered_df.rows) = 0)

C3_Witness == pc = "stopped" /\ Has("warn_empty") /\ Len(df.rows) > 1

\* C4 as stated: a request with X and Y gives exactly one chart and no warning, or a
\* warning and no chart; never both, never neither.
C4_Original ==
    GraphDone =>
        \/ Count("chart") = 1 /\ ~Has("warn_validation") /\ ~Has("warn_heatmap")
        \/ ~Has("chart") /\ (Has("warn_validation") \/ Has("warn_heatmap"))

\* C4 amended: at most one chart is drawn; the validation warning is shown exactly
\* when the type is Auto or One-to-One and X is not numeric, and it does not replace
\* the chart: One-to-One always draws its scatter chart.
C4_Amended ==
    GraphDone =>
        /\ Count("chart") <= 1
        /\ Has("warn_validation") <=>
              (relationship_type \in {"Auto", "One-to-One"} /\ ~XNumeric)
        /\ relationship_type = "One-to-One" => (Has("chart") /\ fig.family = "scatter")

C4_Witness ==
    /\ pc = "done"
    /\ BothSelected
    /\ relationship_type = "One-to-One"
    /\ Has("warn_validation")
    /\ Has("chart")

\* C5 as stated: under Auto a chart is always drawn and no validation warning shown.
C5_Original ==
    (GraphDone /\ relationship_type = "Auto") =>
        /\ Has("chart")
        /\ fig.family \in {"scatter", "bar", "histogram"}
        /\ ~Has("warn_validation")

\* C5 amended: under Auto Y is numeric; with a numeric X the scatter chart is drawn
\* and nothing is warned; with any other X the validation warning is shown and the
\* bar branch is taken (never the histogram), which draws the bar chart when the
\* aggregation is count.
C5_Amended ==
    (GraphDone /\ relationship_type = "Auto") =>
        /\ YNumeric
        /\ XNumeric => (Has("chart") /\ fig.family = "scatter" /\ ~Has("warn_validation"))
        /\ ~XNumeric =>
              /\ Has("warn_validation")
              /\ fig.family \in {"bar", "None"}
              /\ agg_func = "count" => (Has("chart") /\ fig.family = "bar")

C5_Witness ==
    /\ pc = "done"
    /\ BothSelected
    /\ relationship_type = "Auto"
    /\ ~XNumeric
    /\ Has("warn_validation")
    /\ Has("chart")

OptionsBuilt == Len(x_options) > 0

AllCols == <<SelectNone>> \o df.columns
NumericCols == <<SelectNone>> \o SelectSeq(df.columns, LAMBDA c : df.dtype[c] # "object")
TextCols == <<SelectNone>> \o SelectSeq(df.columns, LAMBDA c : df.dtype[c] = "object")
FewValuedTextCols ==
    <<SelectNone>> \o SelectSeq(df.columns,
                                LAMBDA c : df.dtype[c] = "object" /\ Cardinality(Distinct(df, c)) < 100)

\* C6 as stated: Auto offers all columns for X and for Y; One-to-One and One-to-Many
\* all columns for X and the numeric ones for Y; Many-to-Many the categorical ones
\* for both.
C6_Original ==
    OptionsBuilt =>
        CASE relationship_type = "Auto" -> x_options = AllCols /\ y_options = AllCols
          [] relationship_type \in {"One-to-One", "One-to-Many"} ->
                x_options = AllCols /\ y_options = NumericCols
          [] OTHER -> x_options = TextCols /\ y_options = TextCols

\* C6 amended: Auto, One-to-One and One-to-Many offer all columns for X and only the
\* numeric columns for Y; Many-to-Many offers, for both, only the non-numeric columns
\* with fewer than 100 distinct values.
C6_Amended ==
    OptionsBuilt =>
        CASE relationship_type \in {"Auto", "One-to-One", "One-to-Many"} ->
                x_options = AllCols /\ y_options = NumericCols
          [] OTHER -> x_options = FewValuedTextCols /\ y_options = FewValuedTextCols

C6_Witness ==
    /\ pc = "validate"
    /\ relationship_type = "Auto"
    /\ y_options # AllCols
    /\ selected_y # SelectNone

TableFamily ==
    CASE relationship_type = "Auto" ->
            IF XNumeric /\ YNumeric THEN "scatter"
            ELSE IF YNumeric THEN "bar" ELSE "histogram"
      [] relationship_type = "One-to-One" -> "scatter"
      [] relationship_type = "One-to-Many" -> "bar"
      [] OTHER -> "heatmap"

\* C7: a chart that is drawn has the family of the decision table for the current
\* relationship type and column types.
C7_Family ==
    GraphDone =>
        /\ Has("chart") <=> fig.family # "None"
        /\ Has("chart") => fig.family = TableFamily

C7_Witness ==
    /\ pc = "done"
    /\ BothSelected
    /\ relationship_type = "Auto"
    /\ XNumeric /\ YNumeric
    /\ fig.family = "scatter"

BarCase ==
    \/ relationship_type = "Auto" /\ ~XNumeric /\ YNumeric
    \/ relationship_type = "One-to-Many"

GroupRows(k) == SelectSeq(filtered_df.rows, LAMBDA r : r[selected_x] = k)

RECURSIVE SumY(_)
SumY(rows) == IF Len(rows) = 0 THEN 0 ELSE rows[1][selected_y].num + SumY(Tail(rows))

\* C8: a bar chart with sum or mean gets one row per distinct X of the filtered
\* table, with the sum or mean of Y over that group, whatever the color column; with
\* count it gets the filtered rows and X only.
C8_BarAggregated ==
    (GraphDone /\ BarCase) =>
        /\ Has("chart")
        /\ fig.family = "bar"
        /\ fig.x = selected_x
        /\ IF agg_func = "count"
           THEN fig.y = "None" /\ fig.data = filtered_df.rows
           ELSE /\ fig.y = selected_y
                /\ Len(fig.data) = Cardinality(Distinct(filtered_df, selected_x))
                /\ {fig.data[i][selected_x] : i \in 1..Len(fig.data)}
                      = Distinct(filtered_df, selected_x)
                /\ \A i \in 1..Len(fig.data) :
                      LET g == GroupRows(fig.data[i][selected_x])
                          v == fig.data[i][selected_y]
                      IN  IF agg_func = "sum" THEN v.num = SumY(g) * v.den
                          ELSE v.num * Len(g) = SumY(g) * v.den

\* C9: under Many-to-Many a numeric X or Y gives a warning and no chart and no plot
\* download; two non-numeric columns give a heatmap.
C9_ManyToMany ==
    (GraphDone /\ relationship_type = "Many-to-Many") =>
        IF XNumeric \/ YNumeric
        THEN /\ fig = NoFig
             /\ ~Has("chart")
             /\ ~Has("download_plot")
             /\ Has("warn_validation") \/ Has("warn_heatmap")
        ELSE Has("chart") /\ fig.family = "heatmap"

====
